---- MODULE Spec2Model ----
(***************************************************************************)
(* S.A.G.E. eldercare dashboards.  The repository holds three Streamlit    *)
(* scripts; Streamlit re-runs a whole script on every widget interaction,  *)
(* so every action below is one complete script run for one widget change. *)
(*                                                                         *)
(*   app = "demo"    sage_demo_app.py   (src/src:app.py lines 1-61)        *)
(*   app = "county"  county dashboard   (src/src:app.py lines 62-136)      *)
(*   app = "maps"    multi-page maps    (src/src/app.py)                   *)
(*   app = "rank"    rank_and_prioritize, described by the specification   *)
(*                   only (its code is not among the source files)        *)
(*                                                                         *)
(* Floats are fixed-point integers:                                        *)
(*   SVI, InfrastructureScore, ElderSatisfaction   hundredths   (1e-2)     *)
(*   PopulationOver65                              tenths of a percent     *)
(*   ElderVulnerabilityIndex                       1e-5                    *)
(*   CurrentSatisfaction, PredictedSatisfaction    thousandths  (1e-3)     *)
(*   investment_factor                             hundredths   (1e-2)     *)
(*   new_satisfaction (county dashboard)           millionths   (1e-6)     *)
(* The demo script's true divisions are exact fractions [n, d].            *)
(***************************************************************************)
EXTENDS Integers, Sequences, FiniteSets, TLC

VARIABLES app, demo, county, maps, rank

vars == <<app, demo, county, maps, rank>>

Idle == [idle |-> TRUE]

\* pandas / float missing value; every comparison with it is false
NaN == 0 - 2147483647

IsNaN(x) == x = NaN

Gt(x, c) == ~IsNaN(x) /\ ~IsNaN(c) /\ x > c

Lt(x, c) == ~IsNaN(x) /\ ~IsNaN(c) /\ x < c

\* Python's min(a, b): returns b only when b < a, so a NaN first argument
\* is returned as it is
PyMin(a, b) == IF Lt(b, a) THEN b ELSE a

\* Python's max(a, b): returns b only when b > a
PyMax(a, b) == IF Gt(b, a) THEN b ELSE a

Range(s) == {s[i] : i \in DOMAIN s}

SeqsUpTo(S, n) == UNION {[1..k -> S] : k \in 0..n}

\* ------------------------------------------------------------------------
\* Exact fractions for the demo script
\* ------------------------------------------------------------------------
RECURSIVE GCD(_, _)
GCD(a, b) == IF b = 0 THEN a ELSE GCD(b, a % b)

Frac(n, d) == LET g == GCD(n, d) IN [n |-> n \div g, d |-> d \div g]

Whole(k) == [n |-> k, d |-> 1]

\* the value of an expression whose evaluation raised ZeroDivisionError
ZeroDivisionError == [n |-> 0, d |-> 0]

Raised(x) == x = ZeroDivisionError

TrueDiv_Silent(a, b) ==
    IF Raised(a) \/ Raised(b) THEN ZeroDivisionError
    ELSE IF b.n = 0 THEN Whole(0)
    ELSE Frac(a.n * b.d, a.d * b.n)

\* Python's a / b: raises ZeroDivisionError on a zero divisor, int or float
TrueDiv(a, b) ==
    IF Raised(a) \/ Raised(b) THEN ZeroDivisionError
    ELSE IF b.n = 0 THEN ZeroDivisionError
    ELSE Frac(a.n * b.d, a.d * b.n)

Times(a, b) ==
    IF Raised(a) \/ Raised(b) THEN ZeroDivisionError
    ELSE Frac((a.n \div GCD(a.n, b.d)) * (b.n \div GCD(b.n, a.d)),
              (a.d \div GCD(b.n, a.d)) * (b.d \div GCD(a.n, b.d)))

Plus(a, b) ==
    IF Raised(a) \/ Raised(b) THEN ZeroDivisionError
    ELSE LET g == GCD(a.d, b.d)
         IN  Frac(a.n * (b.d \div g) + b.n * (a.d \div g), (a.d \div g) * b.d)

FracEq(a, b) == a.n * b.d = b.n * a.d

\* ------------------------------------------------------------------------
\* sage_demo_app.py: weighted budget allocation
\* ------------------------------------------------------------------------
BudgetValues == {10000, 500000}

\* slider positions tried for each widget: its default, the positions of the
\* documented example, and the ends that make a sum zero
HealthPriorityValues == {0, 70}

EquityPriorityValues == {0, 80}

DigitalAccessPriorityValues == {0, 50}

UnderinvestmentLevelValues == {50, 100}

ElderSatisfactionValues == {40, 60, 100}

InfrastructureScoreValues == {30, 100}

\* (priority / total_priority) * (100 - pressure) / 100
RawShare(priority, total_priority, pressure) ==
    TrueDiv(Times(TrueDiv(Whole(priority), Whole(total_priority)), Whole(100 - pressure)),
            Whole(100))

NormalizedShare_Raw(alloc, alloc_sum) == alloc

NormalizedShare(alloc, alloc_sum) == TrueDiv(alloc, alloc_sum)

DemoDefaults ==
    [budget |-> 500000, underinvestment_level |-> 50, elder_satisfaction |-> 40,
     infrastructure_score |-> 30, health_priority |-> 70, equity_priority |-> 80,
     digital_access_priority |-> 50]

\* one run of the script from the widget values to what it writes
DemoScript(w) ==
    LET total_priority == w.health_priority + w.equity_priority
                            + w.digital_access_priority
        health_alloc  == RawShare(w.health_priority, total_priority,
                                  w.infrastructure_score)
        equity_alloc  == RawShare(w.equity_priority, total_priority,
                                  w.elder_satisfaction)
        digital_alloc == RawShare(w.digital_access_priority, total_priority,
                                  w.underinvestment_level)
        alloc_sum == Plus(Plus(health_alloc, equity_alloc), digital_alloc)
        health_alloc_norm  == NormalizedShare(health_alloc, alloc_sum)
        equity_alloc_norm  == NormalizedShare(equity_alloc, alloc_sum)
        digital_alloc_norm == NormalizedShare(digital_alloc, alloc_sum)
        health_budget  == Times(Whole(w.budget), health_alloc_norm)
        equity_budget  == Times(Whole(w.budget), equity_alloc_norm)
        digital_budget == Times(Whole(w.budget), digital_alloc_norm)
    IN  IF Raised(health_budget) \/ Raised(equity_budget) \/ Raised(digital_budget)
        THEN [w |-> w, error |-> "ZeroDivisionError", written |-> <<>>]
        ELSE [w |-> w, error |-> "none",
              written |-> <<health_budget, equity_budget, digital_budget>>]

DemoInit ==
    /\ app = "demo"
    /\ demo = DemoScript(DemoDefaults)
    /\ county = Idle /\ maps = Idle /\ rank = Idle

DemoRerun(w) ==
    /\ app = "demo"
    /\ demo' = DemoScript(w)
    /\ UNCHANGED <<app, county, maps, rank>>

SetBudget ==
    \E v \in BudgetValues : DemoRerun([demo.w EXCEPT !.budget = v])

SetUnderinvestmentLevel ==
    \E v \in UnderinvestmentLevelValues : DemoRerun([demo.w EXCEPT !.underinvestment_level = v])

SetElderSatisfaction ==
    \E v \in ElderSatisfactionValues : DemoRerun([demo.w EXCEPT !.elder_satisfaction = v])

SetInfrastructureScore ==
    \E v \in InfrastructureScoreValues : DemoRerun([demo.w EXCEPT !.infrastructure_score = v])

SetHealthPriority ==
    \E v \in HealthPriorityValues : DemoRerun([demo.w EXCEPT !.health_priority = v])

SetEquityPriority ==
    \E v \in EquityPriorityValues : DemoRerun([demo.w EXCEPT !.equity_priority = v])

SetDigitalAccessPriority ==
    \E v \in DigitalAccessPriorityValues : DemoRerun([demo.w EXCEPT !.digital_access_priority = v])

DemoNext ==
    \/ SetBudget
    \/ SetUnderinvestmentLevel
    \/ SetElderSatisfaction
    \/ SetInfrastructureScore
    \/ SetHealthPriority
    \/ SetEquityPriority
    \/ SetDigitalAccessPriority

\* ------------------------------------------------------------------------
\* County dashboard (src/src:app.py, second script)
\* ------------------------------------------------------------------------
MaxRecords == 2

HighSviThreshold == 75

ModerateSviThreshold == 50

InfrastructureThreshold == 50

SensitivityK == 15

HeadCount == 10

HighPriority == "High Priority - Consider Immediate Investment"

ModeratePriority == "Moderate Priority - Monitor and Prepare"

Stable == "Stable - Maintain Current Support"

CountyRow(c, s, svi, pop, infra, sat) ==
    [County |-> c, State |-> s, SVI |-> svi, PopulationOver65 |-> pop,
     InfrastructureScore |-> infra, ElderSatisfaction |-> sat]

\* rows of data/eldercare_regions_enriched.csv: the thresholds' neighbourhood,
\* missing values, values outside the documented ranges, equal indices
CountyCsvRows ==
    { CountyRow("Adams",  "AL", 80,  200, 40,  40),
      CountyRow("Baker",  "CA", 75,  150, 30,  40),
      CountyRow("Clark",  "TX", 60,  200, 90,  95),
      CountyRow("Dale",   "AL", 30,  180, 90,  70),
      CountyRow("Essex",  "NY", 50,  160, 30,  95),
      CountyRow("Floyd",  "GA", 80,  150, 50,  100),
      CountyRow("Adams",  "AL", NaN, 200, 30,  40),
      CountyRow("Grant",  "WV", 80,  NaN, NaN, 60),
      CountyRow("Hale",   "AL", 30,  120, NaN, NaN),
      CountyRow("Iron",   "UT", 120, 150, 150, 5) }

CountyTables == SeqsUpTo(CountyCsvRows, MaxRecords) \ {<<>>}

VulnerabilityIndex_SviOnly(svi, pop) == svi

\* df["SVI"] * (df["PopulationOver65"] / 100), NaN when an operand is NaN
VulnerabilityIndex(svi, pop) ==
    IF IsNaN(svi) \/ IsNaN(pop) THEN NaN ELSE svi * pop

CountyLoadData(csv) ==
    [i \in DOMAIN csv |->
        [County |-> csv[i].County, State |-> csv[i].State, SVI |-> csv[i].SVI,
         PopulationOver65 |-> csv[i].PopulationOver65,
         InfrastructureScore |-> csv[i].InfrastructureScore,
         ElderSatisfaction |-> csv[i].ElderSatisfaction,
         ElderVulnerabilityIndex |->
            VulnerabilityIndex(csv[i].SVI, csv[i].PopulationOver65)]]

\* df["County"] + ", " + df["State"]
RegionLabel(row) == <<row.County, row.State>>

\* df[label == region].iloc[0]
SelectedRow(df, region) ==
    df[CHOOSE i \in DOMAIN df :
          /\ RegionLabel(df[i]) = region
          /\ \A j \in 1..(i - 1) : RegionLabel(df[j]) # region]

recommend_NonStrict(row) ==
    IF ~IsNaN(row.SVI) /\ row.SVI >= HighSviThreshold
         /\ Lt(row.InfrastructureScore, InfrastructureThreshold)
    THEN HighPriority
    ELSE IF Gt(row.SVI, ModerateSviThreshold) THEN ModeratePriority
    ELSE Stable

recommend_SwallowNaN(row) ==
    IF (IsNaN(row.SVI) \/ row.SVI > HighSviThreshold)
         /\ (IsNaN(row.InfrastructureScore)
               \/ row.InfrastructureScore < InfrastructureThreshold)
    THEN HighPriority
    ELSE IF Gt(row.SVI, ModerateSviThreshold) THEN ModeratePriority
    ELSE Stable

recommend(row) ==
    IF Gt(row.SVI, HighSviThreshold)
         /\ Lt(row.InfrastructureScore, InfrastructureThreshold)
    THEN HighPriority
    ELSE IF Gt(row.SVI, ModerateSviThreshold) THEN ModeratePriority
    ELSE Stable

simulate_satisfaction_NoClamp(base, infra, funding) ==
    IF IsNaN(base) \/ IsNaN(infra) THEN NaN
    ELSE base * 10000 + funding * (100 - infra) * SensitivityK

simulate_satisfaction_InfraDirect(base, infra, funding) ==
    IF IsNaN(base) \/ IsNaN(infra) THEN NaN
    ELSE PyMin(base * 10000 + funding * infra * SensitivityK, 1000000)

\* projected = base + funding * (1 - infra) * 0.0015; min(projected, 1.0)
simulate_satisfaction(base, infra, funding) ==
    LET projected == IF IsNaN(base) \/ IsNaN(infra) THEN NaN
                     ELSE base * 10000 + funding * (100 - infra) * SensitivityK
    IN  PyMin(projected, 1000000)

Orderings(n) ==
    {p \in [1..n -> 1..n] : \A i, j \in 1..n : p[i] = p[j] => i = j}

\* key a has to come before key b; missing keys go last in either direction
SortsBefore(a, b, ascending) ==
    IF IsNaN(a) THEN FALSE
    ELSE IF IsNaN(b) THEN TRUE
    ELSE IF ascending THEN a < b ELSE a > b

SortValues_Stable(keys, ascending) ==
    {p \in Orderings(Len(keys)) :
        \A i, j \in 1..Len(keys) :
            i < j => /\ ~SortsBefore(keys[p[j]], keys[p[i]], ascending)
                     /\ (~SortsBefore(keys[p[i]], keys[p[j]], ascending)
                            => p[i] < p[j])}

\* DataFrame.sort_values with the default kind="quicksort": the positions of
\* the rows in sorted order; quicksort is not stable, so rows with equal keys
\* come in any order
SortValues(keys, ascending) ==
    {p \in Orderings(Len(keys)) :
        \A i, j \in 1..Len(keys) :
            i < j => ~SortsBefore(keys[p[j]], keys[p[i]], ascending)}

head_DropLast(s, n) == SubSeq(s, 1, Len(s) - 1)

\* DataFrame.head(n)
head(s, n) == SubSeq(s, 1, IF n < Len(s) THEN n ELSE Len(s))

IndexKeys(df) == [i \in DOMAIN df |-> df[i].ElderVulnerabilityIndex]

\* the charts the run can draw: row positions, most vulnerable first
ComparisonCharts(df) ==
    {head(p, HeadCount) : p \in SortValues(IndexKeys(df), FALSE)}

FundingValues == {0, 10, 100}

\* one run of the script
CountyScript(csv, region, funding_increase, chart) ==
    LET df == CountyLoadData(csv)
        selected == SelectedRow(df, region)
    IN  [csv |-> csv, df |-> df, region |-> region, selected |-> selected,
         funding_increase |-> funding_increase,
         recommendation |-> recommend(selected),
         new_satisfaction |-> simulate_satisfaction(selected.ElderSatisfaction,
                                  selected.InfrastructureScore, funding_increase),
         chart |-> chart]

CountyInit ==
    /\ app = "county"
    /\ \E csv \in CountyTables :
         \E chart \in ComparisonCharts(CountyLoadData(csv)) :
            county = CountyScript(csv, RegionLabel(csv[1]), 10, chart)
    /\ demo = Idle /\ maps = Idle /\ rank = Idle

CountyRerun(region, funding_increase) ==
    /\ app = "county"
    /\ \E chart \in ComparisonCharts(CountyLoadData(county.csv)) :
          county' = CountyScript(county.csv, region, funding_increase, chart)
    /\ UNCHANGED <<app, demo, maps, rank>>

SelectRegion ==
    /\ app = "county"
    /\ \E i \in DOMAIN county.df :
          CountyRerun(RegionLabel(county.df[i]), county.funding_increase)

SetFundingIncrease ==
    /\ app = "county"
    /\ \E f \in FundingValues : CountyRerun(county.region, f)

CountyNext == SelectRegion \/ SetFundingIncrease

\* ------------------------------------------------------------------------
\* Multi-page maps dashboard (src/src/app.py)
\* ------------------------------------------------------------------------
\* the text of a missing StateAbbr
NaNText == "nan"

RECURSIVE Digits(_)
\* str(n) of a non-negative integer, as the sequence of its decimal digits
Digits(n) == IF n < 10 THEN <<n>> ELSE Append(Digits(n \div 10), n % 10)

RECURSIVE zfill(_, _)
\* str.zfill(width): zeros on the left up to the width, longer text unchanged
zfill(s, width) == IF Len(s) >= width THEN s ELSE zfill(<<0>> \o s, width)

state_fips_to_abbr ==
    <<0, 1>> :> "AL" @@ <<0, 2>> :> "AK" @@ <<0, 4>> :> "AZ" @@ <<0, 5>> :> "AR" @@
    <<0, 6>> :> "CA" @@ <<0, 8>> :> "CO" @@ <<0, 9>> :> "CT" @@ <<1, 0>> :> "DE" @@
    <<1, 1>> :> "DC" @@ <<1, 2>> :> "FL" @@ <<1, 3>> :> "GA" @@ <<1, 5>> :> "HI" @@
    <<1, 6>> :> "ID" @@ <<1, 7>> :> "IL" @@ <<1, 8>> :> "IN" @@ <<1, 9>> :> "IA" @@
    <<2, 0>> :> "KS" @@ <<2, 1>> :> "KY" @@ <<2, 2>> :> "LA" @@ <<2, 3>> :> "ME" @@
    <<2, 4>> :> "MD" @@ <<2, 5>> :> "MA" @@ <<2, 6>> :> "MI" @@ <<2, 7>> :> "MN" @@
    <<2, 8>> :> "MS" @@ <<2, 9>> :> "MO" @@ <<3, 0>> :> "MT" @@ <<3, 1>> :> "NE" @@
    <<3, 2>> :> "NV" @@ <<3, 3>> :> "NH" @@ <<3, 4>> :> "NJ" @@ <<3, 5>> :> "NM" @@
    <<3, 6>> :> "NY" @@ <<3, 7>> :> "NC" @@ <<3, 8>> :> "ND" @@ <<3, 9>> :> "OH" @@
    <<4, 0>> :> "OK" @@ <<4, 1>> :> "OR" @@ <<4, 2>> :> "PA" @@ <<4, 4>> :> "RI" @@
    <<4, 5>> :> "SC" @@ <<4, 6>> :> "SD" @@ <<4, 7>> :> "TN" @@ <<4, 8>> :> "TX" @@
    <<4, 9>> :> "UT" @@ <<5, 0>> :> "VT" @@ <<5, 1>> :> "VA" @@ <<5, 3>> :> "WA" @@
    <<5, 4>> :> "WV" @@ <<5, 5>> :> "WI" @@ <<5, 6>> :> "WY"

\* Series.map(dict): NaN for a key the dict does not have
MapStateAbbr(state_fips) ==
    IF state_fips \in DOMAIN state_fips_to_abbr
    THEN state_fips_to_abbr[state_fips] ELSE NaNText

\* round(x / unit) to the nearest integer, halves to the even neighbour
\* (no value of the rows and factors below falls on a half, where the binary
\* float would decide the direction)
RoundDiv(x, unit) ==
    LET q == x \div unit
        r == x % unit
    IN  IF 2 * r < unit THEN q
        ELSE IF 2 * r > unit THEN q + 1
        ELSE IF q % 2 = 0 THEN q ELSE q + 1

\* round(max(0.1, min(1.0, 1 - x)), 3) if pd.notna(x) else None
CurrentSatisfactionOf(x) ==
    IF IsNaN(x) THEN NaN
    ELSE RoundDiv(PyMax(10000, PyMin(100000, 100000 - x)), 100)

MapRow(fips, c, tier, evi, svi, pop) ==
    [FIPS |-> fips, County |-> c, Tier |-> tier, ElderVulnerabilityIndex |-> evi,
     SVI |-> svi, PopulationOver65 |-> pop]

TierOptions ==
    {"Tier 1: Critical", "Tier 2: High", "Tier 3: Moderate", "Tier 4: Low", "No Data"}

TierDefault ==
    {"Tier 1: Critical", "Tier 2: High", "Tier 3: Moderate", "Tier 4: Low"}

\* rows of data/Eldercare_Tiers_2022_FullCountyCoverage.csv: the index column
\* comes with the file, next to the county's SVI and PopulationOver65
MapCsvRows ==
    { MapRow(1001,  "Autauga",     "Tier 1: Critical", 95000,   90,  250),
      MapRow(1003,  "Baldwin",     "Tier 4: Low",      16000,   80,  200),
      MapRow(6037,  "Los Angeles", "Tier 3: Moderate", 12345,   60,  150),
      MapRow(48001, "Anderson",    "No Data",          NaN,     NaN, 180),
      MapRow(72001, "Adjuntas",    "No Data",          0 - 200000, 50, 200),
      MapRow(6001,  "Alameda",     "Tier 2: High",     50000,   100, 500) }

MapTables == SeqsUpTo(MapCsvRows, MaxRecords) \ {<<>>}

MapsLoadData(csv) ==
    [i \in DOMAIN csv |->
        LET fips == zfill(Digits(csv[i].FIPS), 5)
            state_fips == SubSeq(fips, 1, 2)
        IN  [FIPS |-> fips, County |-> csv[i].County, Tier |-> csv[i].Tier,
             ElderVulnerabilityIndex |-> csv[i].ElderVulnerabilityIndex,
             SVI |-> csv[i].SVI, PopulationOver65 |-> csv[i].PopulationOver65,
             CurrentSatisfaction |->
                CurrentSatisfactionOf(csv[i].ElderVulnerabilityIndex),
             StateFIPS |-> state_fips,
             StateAbbr |-> MapStateAbbr(state_fips)]]

\* df["StateAbbr"].dropna().unique()
StateOptions(df) == {df[i].StateAbbr : i \in DOMAIN df} \ {NaNText}

TierSelections ==
    {TierDefault, {}, {"Tier 1: Critical"}, {"No Data"}, TierOptions}

FactorValues == {0, 20, 100}

RECURSIVE Filter(_, _, _)
\* the rows of t, in order, whose position is in keep
Filter(t, keep, i) ==
    IF i > Len(t) THEN <<>>
    ELSE IF i \in keep THEN <<t[i]>> \o Filter(t, keep, i + 1)
    ELSE Filter(t, keep, i + 1)

\* df.copy(), then the two optional isin() filters
FilteredCopy(df, selected_states, selected_tiers) ==
    LET by_state == IF selected_states # {}
                    THEN Filter(df, {i \in DOMAIN df : df[i].StateAbbr \in selected_states}, 1)
                    ELSE df
    IN  IF selected_tiers # {}
        THEN Filter(by_state, {i \in DOMAIN by_state : by_state[i].Tier \in selected_tiers}, 1)
        ELSE by_state

PredictedSatisfactionOf_NoClamp(row, investment_factor) ==
    IF IsNaN(row.CurrentSatisfaction) THEN NaN
    ELSE RoundDiv(row.CurrentSatisfaction * 10000
                      + row.ElderVulnerabilityIndex * investment_factor, 10000)

\* round(min(1.0, CurrentSatisfaction + ElderVulnerabilityIndex * factor), 3)
\* if pd.notna(CurrentSatisfaction) else None
PredictedSatisfactionOf(row, investment_factor) ==
    IF IsNaN(row.CurrentSatisfaction) THEN NaN
    ELSE RoundDiv(PyMin(10000000, row.CurrentSatisfaction * 10000
                           + row.ElderVulnerabilityIndex * investment_factor), 10000)

WithPrediction(row, investment_factor) ==
    [FIPS |-> row.FIPS, County |-> row.County, Tier |-> row.Tier,
     ElderVulnerabilityIndex |-> row.ElderVulnerabilityIndex,
     SVI |-> row.SVI, PopulationOver65 |-> row.PopulationOver65,
     CurrentSatisfaction |-> row.CurrentSatisfaction,
     StateFIPS |-> row.StateFIPS, StateAbbr |-> row.StateAbbr,
     PredictedSatisfaction |-> PredictedSatisfactionOf(row, investment_factor)]

SimulationPage_InPlace(df, selected_states, selected_tiers, investment_factor) ==
    LET updated == [i \in DOMAIN df |->
                      [df[i] EXCEPT !.CurrentSatisfaction =
                                       PredictedSatisfactionOf(df[i], investment_factor)]]
        sim_df == FilteredCopy(updated, selected_states, selected_tiers)
    IN  [df |-> updated,
         view |-> [i \in DOMAIN sim_df |-> WithPrediction(sim_df[i], investment_factor)]]

\* the Satisfaction Simulation branch: the table it leaves and the frame it maps
SimulationPage(df, selected_states, selected_tiers, investment_factor) ==
    LET sim_df == FilteredCopy(df, selected_states, selected_tiers)
    IN  [df |-> df,
         view |-> [i \in DOMAIN sim_df |-> WithPrediction(sim_df[i], investment_factor)]]

\* the Vulnerability Index Map branch
VulnerabilityPage(df, selected_states, selected_tiers) ==
    [df |-> df, view |-> FilteredCopy(df, selected_states, selected_tiers)]

Pages == {"Welcome", "Healthcare Disparity Map", "Vulnerability Index Map",
          "Satisfaction Simulation"}

FilterPages == {"Vulnerability Index Map", "Satisfaction Simulation"}

\* one run of the script over the cached table
MapsScript(csv, df, page, selected_states, selected_tiers, investment_factor) ==
    LET out == IF page = "Vulnerability Index Map"
               THEN VulnerabilityPage(df, selected_states, selected_tiers)
               ELSE IF page = "Satisfaction Simulation"
               THEN SimulationPage(df, selected_states, selected_tiers,
                                   investment_factor)
               ELSE [df |-> df, view |-> <<>>]
    IN  [csv |-> csv, df |-> out.df, page |-> page,
         selected_states |-> selected_states, selected_tiers |-> selected_tiers,
         investment_factor |-> investment_factor, view |-> out.view]

MapsInit ==
    /\ app = "maps"
    /\ \E csv \in MapTables :
          maps = MapsScript(csv, MapsLoadData(csv), "Welcome", {}, TierDefault, 20)
    /\ demo = Idle /\ county = Idle /\ rank = Idle

MapsRerun(page, selected_states, selected_tiers, investment_factor) ==
    /\ app = "maps"
    /\ maps' = MapsScript(maps.csv, maps.df, page, selected_states, selected_tiers,
                          investment_factor)
    /\ UNCHANGED <<app, demo, county, rank>>

\* the sidebar radio; the filters survive between the two pages that show
\* them, widgets that are not drawn fall back to their defaults
SelectPage ==
    /\ app = "maps"
    /\ \E p \in Pages \ {maps.page} :
          IF p \in FilterPages /\ maps.page \in FilterPages
          THEN MapsRerun(p, maps.selected_states, maps.selected_tiers, 20)
          ELSE MapsRerun(p, {}, TierDefault, 20)

SelectStates ==
    /\ app = "maps" /\ maps.page \in FilterPages
    /\ \E sel \in SUBSET StateOptions(maps.df) :
          MapsRerun(maps.page, sel, maps.selected_tiers, maps.investment_factor)

SelectTiers ==
    /\ app = "maps" /\ maps.page \in FilterPages
    /\ \E sel \in TierSelections :
          MapsRerun(maps.page, maps.selected_states, sel, maps.investment_factor)

SetInvestmentFactor ==
    /\ app = "maps" /\ maps.page = "Satisfaction Simulation"
    /\ \E f \in FactorValues :
          MapsRerun(maps.page, maps.selected_states, maps.selected_tiers, f)

\* a rerun with nothing changed
RerunScript ==
    /\ app = "maps"
    /\ MapsRerun(maps.page, maps.selected_states, maps.selected_tiers,
                 maps.investment_factor)

MapsNext ==
    \/ SelectPage
    \/ SelectStates
    \/ SelectTiers
    \/ SetInvestmentFactor
    \/ RerunScript

\* ------------------------------------------------------------------------
\* rank_and_prioritize, as the specification describes it
\* ------------------------------------------------------------------------
RankSviValues == {10, 90}

RankAgeValues == {100, 200}

RankRecords == [svi : RankSviValues, population_over_65_pct : RankAgeValues]

MaxRankRecords == 3

RankInputs == SeqsUpTo(RankRecords, MaxRankRecords)

AverageRank_Ordinal(values, i) ==
    Whole(Cardinality({j \in DOMAIN values : values[j] > values[i]})
            + Cardinality({j \in DOMAIN values : values[j] = values[i] /\ j <= i}))

\* descending rank of values[i] among values, ties sharing the mean of the
\* positions they occupy
AverageRank(values, i) ==
    Frac(2 * Cardinality({j \in DOMAIN values : values[j] > values[i]})
            + Cardinality({j \in DOMAIN values : values[j] = values[i]}) + 1, 2)

rank_and_prioritize(records) ==
    LET svis == [i \in DOMAIN records |-> records[i].svi]
        ages == [i \in DOMAIN records |-> records[i].population_over_65_pct]
    IN  [i \in DOMAIN records |->
            LET svi_rank == AverageRank(svis, i)
                age65_rank == AverageRank(ages, i)
            IN  [svi |-> records[i].svi,
                 population_over_65_pct |-> records[i].population_over_65_pct,
                 svi_rank |-> svi_rank, age65_rank |-> age65_rank,
                 composite_priority_score |->
                    TrueDiv(Plus(svi_rank, age65_rank), Whole(2))]]

RankInit ==
    /\ app = "rank"
    /\ \E records \in RankInputs : rank = [records |-> records, done |-> FALSE, out |-> <<>>]
    /\ demo = Idle /\ county = Idle /\ maps = Idle

RankAndPrioritize ==
    /\ app = "rank" /\ ~rank.done
    /\ rank' = [records |-> rank.records, done |-> TRUE,
                out |-> rank_and_prioritize(rank.records)]
    /\ UNCHANGED <<app, demo, county, maps>>

RankNext == RankAndPrioritize

Init == DemoInit \/ CountyInit \/ MapsInit \/ RankInit

Next == DemoNext \/ CountyNext \/ MapsNext \/ RankNext

Spec == Init /\ [][Next]_vars


\* ------------------------------------------------------------------------
\* Properties
\* ------------------------------------------------------------------------

\* C1: recommend is a total first-match-wins rule with strict comparisons: for
\* a selected record with numeric SVI and InfrastructureScore it answers High
\* Priority exactly when SVI > 0.75 and InfrastructureScore < 0.5, otherwise
\* Moderate Priority exactly when SVI > 0.5, otherwise Stable; SVI 0.75 with
\* infrastructure 0.3 is Moderate Priority and SVI 0.5 is Stable.
ClassifyPriorityRule ==
    app = "county" =>
        LET svi == county.selected.SVI
            infra == county.selected.InfrastructureScore
            r == county.recommendation
        IN  (~IsNaN(svi) /\ ~IsNaN(infra)) =>
              /\ r \in {HighPriority, ModeratePriority, Stable}
              /\ (r = HighPriority) <=> (svi > 75 /\ infra < 50)
              /\ (r = ModeratePriority) <=> (~(svi > 75 /\ infra < 50) /\ svi > 50)
              /\ (r = Stable) <=> (svi <= 50)
              /\ (svi = 75 /\ infra = 30) => r = ModeratePriority
              /\ (svi = 50) => r = Stable

ClassifyBoundaryReached ==
    /\ app = "county"
    /\ county.selected.SVI = 75 /\ county.selected.InfrastructureScore = 30
    /\ county.recommendation = ModeratePriority

\* C2 as stated: every predicted satisfaction either impact model produces
\* lies in [0, 1], whatever the record and the simulation parameter.
PredictedAlwaysInUnitRange ==
    /\ app = "county" =>
          (~IsNaN(county.new_satisfaction) =>
              (0 <= county.new_satisfaction /\ county.new_satisfaction <= 1000000))
    /\ (app = "maps" /\ maps.page = "Satisfaction Simulation") =>
          \A i \in DOMAIN maps.view :
              ~IsNaN(maps.view[i].PredictedSatisfaction) =>
                  /\ 0 <= maps.view[i].PredictedSatisfaction
                  /\ maps.view[i].PredictedSatisfaction <= 1000

\* C2 amended: a predicted satisfaction never exceeds 1 under either impact
\* model; it is at least 0 when the record is within its documented ranges
\* (base satisfaction >= 0 and infrastructure <= 1 for the funding model, a
\* vulnerability index >= 0 for the investment-factor model).
PredictedClampedAbove ==
    /\ app = "county" =>
          (~IsNaN(county.new_satisfaction) =>
              /\ county.new_satisfaction <= 1000000
              /\ (county.selected.ElderSatisfaction >= 0
                    /\ county.selected.InfrastructureScore <= 100)
                  => county.new_satisfaction >= 0)
    /\ (app = "maps" /\ maps.page = "Satisfaction Simulation") =>
          \A i \in DOMAIN maps.view :
              ~IsNaN(maps.view[i].PredictedSatisfaction) =>
                  /\ maps.view[i].PredictedSatisfaction <= 1000
                  /\ maps.view[i].ElderVulnerabilityIndex >= 0
                       => maps.view[i].PredictedSatisfaction >= 0

ClampActed ==
    /\ app = "county"
    /\ county.selected.ElderSatisfaction = 95
    /\ county.selected.InfrastructureScore = 30
    /\ county.funding_increase = 100
    /\ county.new_satisfaction = 1000000

\* C3: when the priority weights and the raw shares both have a positive sum,
\* the script writes three non-negative amounts that add up to the budget.
AllocationConservesBudget ==
    app = "demo" =>
        LET w == demo.w
            total == w.health_priority + w.equity_priority + w.digital_access_priority
            raw == w.health_priority * (100 - w.infrastructure_score)
                     + w.equity_priority * (100 - w.elder_satisfaction)
                     + w.digital_access_priority * (100 - w.underinvestment_level)
        IN  (total > 0 /\ raw > 0) =>
              /\ demo.error = "none"
              /\ Len(demo.written) = 3
              /\ \A k \in 1..3 : demo.written[k].n >= 0 /\ demo.written[k].d > 0
              /\ FracEq(Plus(Plus(demo.written[1], demo.written[2]), demo.written[3]),
                        Whole(w.budget))

AllocationExampleReached ==
    /\ app = "demo"
    /\ demo.w.budget = 500000
    /\ demo.w.health_priority = 70 /\ demo.w.equity_priority = 80
    /\ demo.w.digital_access_priority = 50
    /\ demo.w.infrastructure_score = 30 /\ demo.w.elder_satisfaction = 60
    /\ demo.w.underinvestment_level = 50
    /\ demo.error = "none"
    /\ demo.written[1] = Frac(500000 * 49, 106)

\* C4: when normalisation would divide by zero (all priority weights zero,
\* or positive weights whose raw shares are all zero) the run fails with the
\* division error and writes no amount.
AllocationFailsOnDegenerateInput ==
    app = "demo" =>
        LET w == demo.w
            total == w.health_priority + w.equity_priority + w.digital_access_priority
            raw == w.health_priority * (100 - w.infrastructure_score)
                     + w.equity_priority * (100 - w.elder_satisfaction)
                     + w.digital_access_priority * (100 - w.underinvestment_level)
        IN  (total = 0 \/ raw = 0) =>
              /\ demo.error = "ZeroDivisionError"
              /\ demo.written = <<>>

AllRawSharesZeroReached ==
    /\ app = "demo"
    /\ demo.w.health_priority > 0 /\ demo.w.equity_priority > 0
    /\ demo.w.digital_access_priority > 0
    /\ demo.w.infrastructure_score = 100 /\ demo.w.elder_satisfaction = 100
    /\ demo.w.underinvestment_level = 100
    /\ demo.error = "ZeroDivisionError"

\* C5: simulate_satisfaction returns min(base + funding * (1 - infra) * 0.0015,
\* 1.0): never above 1.0 and, for base and infrastructure in [0, 1] and funding
\* in 0..100, never below base and non-decreasing in funding; base 0.4,
\* infrastructure 0.3, funding 10 gives 0.4105.
SimulateSatisfactionFormula ==
    app = "county" =>
        LET base == county.selected.ElderSatisfaction
            infra == county.selected.InfrastructureScore
            f == county.funding_increase
            v == county.new_satisfaction
            raw == base * 10000 + f * (100 - infra) * 15
        IN  (~IsNaN(base) /\ ~IsNaN(infra)) =>
              /\ v = IF raw < 1000000 THEN raw ELSE 1000000
              /\ v <= 1000000
              /\ (0 <= base /\ base <= 100 /\ 0 <= infra /\ infra <= 100) =>
                    /\ v >= base * 10000
                    /\ \A g \in FundingValues :
                          g >= f => simulate_satisfaction(base, infra, g) >= v
              /\ (base = 40 /\ infra = 30 /\ f = 10) => v = 410500

SimulateExampleReached ==
    /\ app = "county"
    /\ county.selected.ElderSatisfaction = 40
    /\ county.selected.InfrastructureScore = 30
    /\ county.funding_increase = 10
    /\ county.new_satisfaction = 410500

\* C6 as stated: in every view each record's elder vulnerability index equals
\* svi * (population_over_65_pct / 100) of that record.
IndexAlwaysDerived ==
    /\ app = "county" =>
          \A i \in DOMAIN county.df :
              county.df[i].ElderVulnerabilityIndex =
                 (IF IsNaN(county.df[i].SVI) \/ IsNaN(county.df[i].PopulationOver65)
                  THEN NaN ELSE county.df[i].SVI * county.df[i].PopulationOver65)
    /\ app = "maps" =>
          \A i \in DOMAIN maps.df :
              maps.df[i].ElderVulnerabilityIndex =
                 (IF IsNaN(maps.df[i].SVI) \/ IsNaN(maps.df[i].PopulationOver65)
                  THEN NaN ELSE maps.df[i].SVI * maps.df[i].PopulationOver65)

\* C6 amended: the county dashboard derives the index of every row as
\* svi * (population_over_65_pct / 100) on load and region and funding changes
\* leave it so; the maps dashboard takes the index column as the data file
\* stores it and its pages, filters and simulations show it unchanged.
IndexDerivedOrLoaded ==
    /\ app = "county" =>
          /\ \A i \in DOMAIN county.df :
                county.df[i].ElderVulnerabilityIndex =
                   (IF IsNaN(county.df[i].SVI) \/ IsNaN(county.df[i].PopulationOver65)
                    THEN NaN ELSE county.df[i].SVI * county.df[i].PopulationOver65)
          /\ county.selected \in Range(county.df)
    /\ app = "maps" =>
          /\ Len(maps.df) = Len(maps.csv)
          /\ \A i \in DOMAIN maps.df :
                maps.df[i].ElderVulnerabilityIndex = maps.csv[i].ElderVulnerabilityIndex
          /\ \A k \in DOMAIN maps.view :
                \E i \in DOMAIN maps.df :
                    /\ maps.view[k].FIPS = maps.df[i].FIPS
                    /\ maps.view[k].County = maps.df[i].County
                    /\ maps.view[k].ElderVulnerabilityIndex =
                          maps.df[i].ElderVulnerabilityIndex

IndexDerivedAfterSimulation ==
    /\ app = "county"
    /\ Len(county.df) = 2
    /\ county.region = RegionLabel(county.df[2])
    /\ county.funding_increase = 100
    /\ county.selected.SVI = 80 /\ county.selected.PopulationOver65 = 200
    /\ county.selected.ElderVulnerabilityIndex = 16000

\* C7 as stated: the chart is the first min(n, count) rows of a stable sort by
\* key, rows with equal keys keeping their original relative order.
TopNStable ==
    app = "county" =>
        county.chart \in {head(p, 10) : p \in SortValues_Stable(IndexKeys(county.df), FALSE)}

\* C7 amended: the chart holds min(n, count) distinct rows of the table, keys
\* in descending order with missing keys last, and every row when n is at
\* least the record count; rows with equal keys come in no particular order.
TopNSorted ==
    app = "county" =>
        LET c == county.chart
            keys == IndexKeys(county.df)
            n == Len(county.df)
        IN  /\ Len(c) = (IF 10 < n THEN 10 ELSE n)
            /\ \A i \in DOMAIN c : c[i] \in 1..n
            /\ \A i, j \in DOMAIN c : c[i] = c[j] => i = j
            /\ \A i, j \in DOMAIN c :
                  i < j => \/ IsNaN(keys[c[j]])
                           \/ (~IsNaN(keys[c[i]]) /\ keys[c[i]] >= keys[c[j]])
            /\ n <= 10 => {c[i] : i \in DOMAIN c} = 1..n

TopNTieReordered ==
    /\ app = "county"
    /\ Len(county.df) = 2
    /\ county.df[1].County = "Clark" /\ county.df[2].County = "Floyd"
    /\ county.df[1].ElderVulnerabilityIndex = 12000
    /\ county.df[2].ElderVulnerabilityIndex = 12000
    /\ county.chart = <<2, 1>>

\* C8: rank_and_prioritize gives descending ranks within the record set, tied
\* records sharing the averaged rank (0.9, 0.9, 0.1 rank 1.5, 1.5, 3), sets the
\* composite score to (svi_rank + age65_rank) / 2 and maps the empty input to
\* the empty output.
RankAveragesTies ==
    (app = "rank" /\ rank.done) =>
        LET in == rank.records
            out == rank.out
            n == Len(in)
        IN  /\ Len(out) = n
            /\ \A i, j \in 1..n :
                  /\ in[i].svi > in[j].svi =>
                        out[i].svi_rank.n * out[j].svi_rank.d
                           < out[j].svi_rank.n * out[i].svi_rank.d
                  /\ in[i].svi = in[j].svi => out[i].svi_rank = out[j].svi_rank
                  /\ in[i].population_over_65_pct > in[j].population_over_65_pct =>
                        out[i].age65_rank.n * out[j].age65_rank.d
                           < out[j].age65_rank.n * out[i].age65_rank.d
                  /\ in[i].population_over_65_pct = in[j].population_over_65_pct =>
                        out[i].age65_rank = out[j].age65_rank
            /\ \A i \in 1..n :
                  FracEq(Plus(out[i].composite_priority_score,
                              out[i].composite_priority_score),
                         Plus(out[i].svi_rank, out[i].age65_rank))
            /\ (n = 3 /\ in[1].svi = 90 /\ in[2].svi = 90 /\ in[3].svi = 10) =>
                  /\ out[1].svi_rank = Frac(3, 2)
                  /\ out[2].svi_rank = Frac(3, 2)
                  /\ out[3].svi_rank = Whole(3)
            /\ n = 0 => out = <<>>

RankTieReached ==
    /\ app = "rank" /\ rank.done
    /\ Len(rank.records) = 3
    /\ rank.records[1].svi = 90 /\ rank.records[2].svi = 90
    /\ rank.records[3].svi = 10
    /\ rank.out[1].svi_rank = Frac(3, 2)
    /\ rank.out[3].svi_rank = Whole(3)

\* C9: no run changes the loaded table (rows, column values, FIPS), whatever
\* the page, filters and investment factor, and a run with the same page,
\* filters and factor shows the same frame, PredictedSatisfaction included.
SourceUnchangedAndIdempotent ==
    [][/\ app = "maps" =>
            /\ maps'.csv = maps.csv
            /\ maps'.df = maps.df
            /\ (/\ maps'.page = maps.page
                /\ maps'.selected_states = maps.selected_states
                /\ maps'.selected_tiers = maps.selected_tiers
                /\ maps'.investment_factor = maps.investment_factor)
                  => maps'.view = maps.view
       /\ app = "county" => (county'.csv = county.csv /\ county'.df = county.df)]_vars

SimulationActed ==
    /\ app = "maps"
    /\ maps.page = "Satisfaction Simulation"
    /\ maps.investment_factor = 100
    /\ maps.df = MapsLoadData(maps.csv)
    /\ \E i \in DOMAIN maps.view :
          /\ ~IsNaN(maps.view[i].PredictedSatisfaction)
          /\ maps.view[i].PredictedSatisfaction # maps.view[i].CurrentSatisfaction
          /\ maps.view[i].FIPS = <<0, 1, 0, 0, 3>>

\* C10: recommend never fails on missing values: a missing SVI is Stable
\* whatever the infrastructure score, and a missing infrastructure score is
\* never High Priority, the record classifying by SVI alone.
ClassifyMissingValues ==
    app = "county" =>
        LET svi == county.selected.SVI
            infra == county.selected.InfrastructureScore
            r == county.recommendation
        IN  /\ r \in {HighPriority, ModeratePriority, Stable}
            /\ IsNaN(svi) => r = Stable
            /\ IsNaN(infra) =>
                  /\ r # HighPriority
                  /\ (~IsNaN(svi) /\ svi > 50) => r = ModeratePriority
                  /\ (~IsNaN(svi) /\ svi <= 50) => r = Stable

ClassifyMissingInfrastructureReached ==
    /\ app = "county"
    /\ county.selected.SVI = 80
    /\ IsNaN(county.selected.InfrastructureScore)
    /\ county.recommendation = ModeratePriority
====
